---- MODULE Spec2Model ----
(***************************************************************************)
(* DocReader-AI-Chatbot front end: the session state manager (useAuth.js), *)
(* the library browser (Library.jsx) and the upgrade flow                  *)
(* (UpgradePrompt.jsx), as state machines.                                 *)
(*                                                                         *)
(* A handler that awaits a request is two actions: the part up to the      *)
(* await (…Issue) and the continuation that runs when the response is      *)
(* there (…Done); the response is an input of the continuation.            *)
(***************************************************************************)
EXTENDS Integers, Sequences, FiniteSets, TLC

----------------------------------------------------------------------------
(* Bounds of the model *)

MaxInFlight == 1
MaxCatalog == 2
MaxTermLen == 1
MaxFilterLen == 2

----------------------------------------------------------------------------
(* JavaScript values *)

\* null and undefined where a string or an object is expected
Null == "NULL"
Undef == "UNDEFINED"

\* a JavaScript number, or undefined, or NaN
Num(n) == [k |-> "num", v |-> n]
NoNum == [k |-> "undef"]
NaN == [k |-> "nan"]

\* !!x for strings and objects
Truthy(x) == x \notin {Null, Undef, ""}

\* !!x for numbers
NumTruthy(x) == x.k = "num" /\ x.v # 0

\* x > 0
JsGt0(x) == x.k = "num" /\ x.v > 0

\* x === -1
JsIsMinus1(x) == x.k = "num" /\ x.v = -1

\* a ?? b
Coalesce(a, b) == IF a.k = "undef" THEN b ELSE a

\* a || b
JsOr(a, b) == IF NumTruthy(a) THEN a ELSE b

\* n - x, n a number
JsSub(n, x) == IF x.k = "num" THEN Num(n - x.v) ELSE NaN

\* String(x), what localStorage.setItem stores
ToStr(x) == IF x = Undef THEN "undefined" ELSE IF x = Null THEN "null" ELSE x

----------------------------------------------------------------------------
(* Values of the model *)

Tokens == {"t1", "t2"}
Profiles == {"alice", "bob"}

\* JSON.stringify of a profile (of undefined: undefined)
Stringify(u) ==
  IF u = Undef THEN Undef ELSE IF u = Null THEN "null" ELSE "{" \o u \o "}"

\* the profile texts JSON.parse accepts
Parses(s) == \E u \in Profiles : Stringify(u) = s

\* JSON.parse of a text it accepts
Parse(s) == CHOOSE u \in Profiles : Stringify(u) = s

\* LIMITS.FREE_CHAT_LIMIT of utils/constants
FREE_CHAT_LIMIT == 2

\* the numbers a response may carry: a count, a remaining allowance, and the
\* field a handler reads when the first one is missing
Counts == {NoNum, Num(0), Num(1)}
Remainings == {NoNum, Num(-1), Num(0), Num(1)}
Fallbacks == {NoNum, Num(1)}

----------------------------------------------------------------------------
(* State *)

VARIABLES
  \* useAuth.js: the hook's state
  user, token, isAuthenticated, isLoading, chatLimits,
  \* localStorage: the entries 'auth_token' and 'user_info' (Null: absent)
  authToken, userInfo,
  \* the mount effect has run
  mounted,
  \* requests in flight: handleGoogleLogin, fetchUserStatus, checkChatLimits
  loginPending, statusPending, limitsPending,
  \* Library.jsx: the prop isOpen and the component's state
  isOpen, domains, filteredDomains, searchTerm, selectedCategory, categories,
  loading, selectedDomain, downloadModalOpen,
  \* requests in flight: fetchDomains, trackDownload
  domainsPending, trackPending,
  \* UpgradePrompt.jsx: the prompt is rendered; its props user and
  \* onUpgradeSuccess (TRUE: the caller supplied one); checkout.js has run
  upOpen, upUser, upRefresh, scriptLoaded,
  \* create-order requests in flight; the order ids of the checkout widgets
  \* that were opened; where the success handler of each payment stands;
  \* the verification requests sent for each payment
  orderPending, widgets, payments, verifySent,
  \* the handler that ran last, with its inputs (the continuation of
  \* fetchUserStatus also notes whether it replaced limits that
  \* updateChatLimits had set just before), and the calls it made to
  \* its surroundings (onOpenUpgradeModal, window.open, alert, the tracking
  \* request, the payment requests, the checkout widget, onUpgradeSuccess,
  \* onClose), in order
  ev, out

sessionVars ==
  <<user, token, isAuthenticated, isLoading, chatLimits, authToken, userInfo,
    mounted, loginPending, statusPending, limitsPending>>

libVars ==
  <<isOpen, domains, filteredDomains, searchTerm, selectedCategory, categories,
    loading, selectedDomain, downloadModalOpen, domainsPending, trackPending>>

upVars ==
  <<upOpen, upUser, upRefresh, scriptLoaded, orderPending, widgets, payments,
    verifySent>>

vars == <<sessionVars, libVars, upVars, ev, out>>

\* selectedDomain when it is null
NoDomain == [none |-> TRUE]

\* the chatLimits of a session nobody is logged in to
DefaultLimits ==
  [remaining |-> Num(FREE_CHAT_LIMIT), used |-> Num(0), canChat |-> TRUE]

\* the prop user of the upgrade prompt when it is null
NoUser == [none |-> TRUE]

\* the payments the checkout provider may report
PaymentIds == {"pay_1", "pay_2"}

\* the upgrade prompt is not rendered and nothing of it is under way
UpgradeIdle ==
  /\ upOpen = FALSE
  /\ upUser = NoUser
  /\ upRefresh = FALSE
  /\ scriptLoaded = FALSE
  /\ orderPending = 0
  /\ widgets = {}
  /\ payments = [p \in PaymentIds |-> "new"]
  /\ verifySent = [p \in PaymentIds |-> 0]

\* what the browser may hold in localStorage when the page loads
StoredTokens == {Null} \cup Tokens
StoredUsers == {Null, "{bad"} \cup {Stringify(u) : u \in Profiles}

Init ==
  /\ authToken \in StoredTokens
  /\ userInfo \in StoredUsers
  /\ user = Null
  /\ token = authToken
  /\ isAuthenticated = FALSE
  /\ isLoading = FALSE
  /\ chatLimits = DefaultLimits
  /\ mounted = FALSE
  /\ loginPending = 0
  /\ statusPending = 0
  /\ limitsPending = 0
  /\ isOpen = FALSE
  /\ domains = <<>>
  /\ filteredDomains = <<>>
  /\ searchTerm = <<>>
  /\ selectedCategory = "All"
  /\ categories = <<>>
  /\ loading = TRUE
  /\ selectedDomain = NoDomain
  /\ downloadModalOpen = FALSE
  /\ domainsPending = 0
  /\ trackPending = 0
  /\ UpgradeIdle
  /\ ev = [op |-> "init"]
  /\ out = <<>>

----------------------------------------------------------------------------
(* Session state manager *)

\* logout() without localStorage.removeItem('user_info')
LogoutEffectKeepsProfile ==
  /\ token' = Null
  /\ user' = Null
  /\ isAuthenticated' = FALSE
  /\ chatLimits' = DefaultLimits
  /\ authToken' = Null
  /\ userInfo' = userInfo

\* logout(): the state it leaves
LogoutEffect ==
  /\ token' = Null
  /\ user' = Null
  /\ isAuthenticated' = FALSE
  /\ chatLimits' = DefaultLimits
  /\ authToken' = Null
  /\ userInfo' = Null

Logout ==
  /\ mounted
  /\ LogoutEffect
  /\ UNCHANGED <<isLoading, mounted, loginPending, statusPending, limitsPending>>
  /\ UNCHANGED upVars
  /\ ev' = [op |-> "logout", wasAuthenticated |-> isAuthenticated]
  /\ UNCHANGED libVars
  /\ out' = <<>>

\* the mount effect that restores the session from the stored token alone
MountTokenOnly ==
  /\ ~mounted
  /\ mounted' = TRUE
  /\ IF Truthy(authToken)
       THEN IF userInfo = Null \/ Parses(userInfo)
              THEN /\ token' = authToken
                   /\ user' = IF userInfo = Null THEN Null ELSE Parse(userInfo)
                   /\ isAuthenticated' = TRUE
                   /\ statusPending' = statusPending + 1
                   /\ UNCHANGED <<chatLimits, authToken, userInfo>>
              ELSE /\ LogoutEffect
                   /\ UNCHANGED statusPending
       ELSE UNCHANGED <<token, user, isAuthenticated, chatLimits, authToken,
                        userInfo, statusPending>>
  /\ UNCHANGED <<isLoading, loginPending, limitsPending>>
  /\ UNCHANGED upVars
  /\ ev' = [op |-> "mount"]
  /\ UNCHANGED libVars
  /\ out' = <<>>

\* the mount effect
Mount ==
  /\ ~mounted
  /\ mounted' = TRUE
  /\ IF Truthy(authToken) /\ Truthy(userInfo)
       THEN IF Parses(userInfo)
              THEN /\ token' = authToken
                   /\ user' = Parse(userInfo)
                   /\ isAuthenticated' = TRUE
                   \* fetchUserStatus() of the first render: its token is the
                   \* stored one, so the request is sent
                   /\ statusPending' = statusPending + 1
                   /\ UNCHANGED <<chatLimits, authToken, userInfo>>
              ELSE \* JSON.parse throws: logout()
                   /\ LogoutEffect
                   /\ UNCHANGED statusPending
       ELSE UNCHANGED <<token, user, isAuthenticated, chatLimits, authToken,
                        userInfo, statusPending>>
  /\ UNCHANGED <<isLoading, loginPending, limitsPending>>
  /\ UNCHANGED upVars
  /\ ev' = [op |-> "mount"]
  /\ UNCHANGED libVars
  /\ out' = <<>>

\* the bodies the login endpoint may answer with
LoginBodies ==
  [access_token : Tokens \cup {Undef},
   user : Profiles \cup {Undef},
   user_chat_count : Counts,
   chat_count : Fallbacks,
   remaining_chats : Remainings]

NoBody == [none |-> TRUE]

LoginResponses ==
  {[status |-> "ok", body |-> b] : b \in LoginBodies}
    \cup {[status |-> s, body |-> NoBody] : s \in {"fail", "throw"}}

\* data.user?.chat_count || data.chat_count || 0
LoginChatCount(b) ==
  JsOr(JsOr(IF b.user = Undef THEN NoNum ELSE b.user_chat_count, b.chat_count),
       Num(0))

\* the chatLimits handleGoogleLogin sets
LoginLimits(b) ==
  [remaining |-> b.remaining_chats,
   used |-> LoginChatCount(b),
   canChat |-> JsGt0(b.remaining_chats) \/ JsIsMinus1(b.remaining_chats)]

\* handleGoogleLogin up to the await
LoginIssue ==
  /\ mounted
  /\ loginPending < MaxInFlight
  /\ isLoading' = TRUE
  /\ loginPending' = loginPending + 1
  /\ UNCHANGED <<user, token, isAuthenticated, chatLimits, authToken, userInfo,
                 mounted, statusPending, limitsPending>>
  /\ UNCHANGED upVars
  /\ ev' = [op |-> "loginIssue"]
  /\ UNCHANGED libVars
  /\ out' = <<>>

\* handleGoogleLogin whose catch block does not call logout()
LoginDoneNoLogout(r) ==
  /\ loginPending > 0
  /\ loginPending' = loginPending - 1
  /\ IF r.status = "ok"
       THEN /\ token' = r.body.access_token
            /\ user' = r.body.user
            /\ isAuthenticated' = TRUE
            /\ chatLimits' = LoginLimits(r.body)
            /\ authToken' = ToStr(r.body.access_token)
            /\ userInfo' = ToStr(Stringify(r.body.user))
       ELSE UNCHANGED <<token, user, isAuthenticated, chatLimits, authToken,
                        userInfo>>
  /\ isLoading' = FALSE
  /\ UNCHANGED <<mounted, statusPending, limitsPending>>
  /\ UNCHANGED upVars
  /\ ev' = [op |-> "login", status |-> r.status, body |-> r.body]
  /\ UNCHANGED libVars
  /\ out' = <<>>

\* handleGoogleLogin that persists the token and not the profile
LoginDoneTokenOnly(r) ==
  /\ loginPending > 0
  /\ loginPending' = loginPending - 1
  /\ IF r.status = "ok" /\ r.body.user # Undef
       THEN /\ token' = r.body.access_token
            /\ user' = r.body.user
            /\ isAuthenticated' = TRUE
            /\ chatLimits' = LoginLimits(r.body)
            /\ authToken' = ToStr(r.body.access_token)
            /\ UNCHANGED userInfo
       ELSE LogoutEffect
  /\ isLoading' = FALSE
  /\ UNCHANGED <<mounted, statusPending, limitsPending>>
  /\ UNCHANGED upVars
  /\ ev' = [op |-> "login", status |-> r.status, body |-> r.body]
  /\ UNCHANGED libVars
  /\ out' = <<>>

\* handleGoogleLogin from the response on
LoginDone(r) ==
  /\ loginPending > 0
  /\ loginPending' = loginPending - 1
  /\ IF r.status = "ok" /\ r.body.user # Undef
       THEN /\ token' = r.body.access_token
            /\ user' = r.body.user
            /\ isAuthenticated' = TRUE
            /\ chatLimits' = LoginLimits(r.body)
            /\ authToken' = ToStr(r.body.access_token)
            /\ userInfo' = Stringify(r.body.user)
       ELSE \* !ok, a rejected fetch, or data.user.email of a body without a
            \* user (line 66, after the setters and setItems): logout()
            LogoutEffect
  /\ isLoading' = FALSE
  /\ UNCHANGED <<mounted, statusPending, limitsPending>>
  /\ UNCHANGED upVars
  /\ ev' = [op |-> "login", status |-> r.status, body |-> r.body]
  /\ UNCHANGED libVars
  /\ out' = <<>>

\* the bodies the status endpoint may answer with
StatusBodies ==
  [user : Profiles \cup {Undef},
   remaining_chats : Remainings,
   remaining : Fallbacks,
   chat_count : Counts,
   used : Fallbacks]

\* the body of an error answer
ErrorBody ==
  [user |-> "bob", remaining_chats |-> Num(0), remaining |-> NoNum,
   chat_count |-> Num(1), used |-> NoNum]

\* "throw": the request is rejected, or the body is no JSON
StatusResponses ==
  {[status |-> "ok", body |-> b] : b \in StatusBodies}
    \cup {[status |-> s, body |-> ErrorBody] : s \in {"401", "500"}}
    \cup {[status |-> "throw", body |-> NoBody]}

\* data.remaining ?? data.remaining_chats ?? -1
StatusRemainingSwapped(b) ==
  Coalesce(Coalesce(b.remaining, b.remaining_chats), Num(-1))

\* data.remaining_chats ?? data.remaining ?? -1
StatusRemaining(b) == Coalesce(Coalesce(b.remaining_chats, b.remaining), Num(-1))

\* data.chat_count ?? data.used ?? 0
StatusUsed(b) == Coalesce(Coalesce(b.chat_count, b.used), Num(0))

\* the chatLimits fetchUserStatus sets
StatusLimits(b) ==
  [remaining |-> StatusRemaining(b),
   used |-> StatusUsed(b),
   canChat |-> JsGt0(StatusRemaining(b)) \/ JsIsMinus1(StatusRemaining(b))]

\* fetchUserStatus up to the await
FetchStatusIssue ==
  /\ mounted
  /\ Truthy(token)
  /\ statusPending < MaxInFlight
  /\ statusPending' = statusPending + 1
  /\ UNCHANGED <<user, token, isAuthenticated, isLoading, chatLimits, authToken,
                 userInfo, mounted, loginPending, limitsPending>>
  /\ UNCHANGED upVars
  /\ ev' = [op |-> "statusIssue"]
  /\ UNCHANGED libVars
  /\ out' = <<>>

\* fetchUserStatus whose continuation leaves alone the limits that
\* updateChatLimits set while the request was in flight
FetchStatusDoneKeepsUpdate(r) ==
  /\ statusPending > 0
  /\ statusPending' = statusPending - 1
  /\ CASE r.status = "ok" ->
            /\ IF Truthy(r.body.user)
                 THEN /\ user' = r.body.user
                      /\ userInfo' = Stringify(r.body.user)
                 ELSE UNCHANGED <<user, userInfo>>
            /\ chatLimits' = IF ev.op = "update" THEN chatLimits
                                               ELSE StatusLimits(r.body)
            /\ UNCHANGED <<token, isAuthenticated, authToken>>
       [] r.status = "401" -> LogoutEffect
       [] OTHER ->
            UNCHANGED <<user, token, isAuthenticated, chatLimits, authToken,
                        userInfo>>
  /\ UNCHANGED <<isLoading, mounted, loginPending, limitsPending>>
  /\ UNCHANGED upVars
  /\ ev' = [op |-> "status", status |-> r.status, body |-> r.body,
            overwroteUpdate |-> ev.op = "update" /\ chatLimits' # chatLimits]
  /\ UNCHANGED libVars
  /\ out' = <<>>

\* fetchUserStatus from the response on
FetchStatusDone(r) ==
  /\ statusPending > 0
  /\ statusPending' = statusPending - 1
  /\ CASE r.status = "ok" ->
            /\ IF Truthy(r.body.user)
                 THEN /\ user' = r.body.user
                      /\ userInfo' = Stringify(r.body.user)
                 ELSE UNCHANGED <<user, userInfo>>
            /\ chatLimits' = StatusLimits(r.body)
            /\ UNCHANGED <<token, isAuthenticated, authToken>>
       [] r.status = "401" -> LogoutEffect
       [] OTHER ->
            UNCHANGED <<user, token, isAuthenticated, chatLimits, authToken,
                        userInfo>>
  /\ UNCHANGED <<isLoading, mounted, loginPending, limitsPending>>
  /\ UNCHANGED upVars
  /\ ev' = [op |-> "status", status |-> r.status, body |-> r.body,
            overwroteUpdate |-> ev.op = "update" /\ chatLimits' # chatLimits]
  /\ UNCHANGED libVars
  /\ out' = <<>>

\* the bodies the chat-limits endpoint may answer with
LimitsBodies == [remaining_chats : Remainings, used : Counts]

LimitsResponses ==
  {[status |-> "ok", body |-> b] : b \in LimitsBodies}
    \cup {[status |-> s, body |-> NoBody] : s \in {"fail", "throw"}}

\* the chatLimits checkChatLimits sets
CheckLimits(b) ==
  [remaining |-> b.remaining_chats,
   used |-> JsSub(FREE_CHAT_LIMIT, b.remaining_chats),
   canChat |-> JsGt0(b.remaining_chats) \/ JsIsMinus1(b.remaining_chats)]

\* checkChatLimits up to the await
CheckLimitsIssue ==
  /\ mounted
  /\ Truthy(token)
  /\ limitsPending < MaxInFlight
  /\ limitsPending' = limitsPending + 1
  /\ UNCHANGED <<user, token, isAuthenticated, isLoading, chatLimits, authToken,
                 userInfo, mounted, loginPending, statusPending>>
  /\ UNCHANGED upVars
  /\ ev' = [op |-> "limitsIssue"]
  /\ UNCHANGED libVars
  /\ out' = <<>>

\* checkChatLimits from the response on
CheckLimitsDone(r) ==
  /\ limitsPending > 0
  /\ limitsPending' = limitsPending - 1
  /\ IF r.status = "ok"
       THEN chatLimits' = CheckLimits(r.body)
       ELSE UNCHANGED chatLimits
  /\ UNCHANGED <<user, token, isAuthenticated, isLoading, authToken, userInfo,
                 mounted, loginPending, statusPending>>
  /\ UNCHANGED upVars
  /\ ev' = [op |-> "limits", status |-> r.status, body |-> r.body]
  /\ UNCHANGED libVars
  /\ out' = <<>>

\* updateChatLimits(newRemaining, newUsed)
UpdateChatLimits(newRemaining, newUsed) ==
  /\ mounted
  /\ chatLimits' = [remaining |-> newRemaining,
                    used |-> newUsed,
                    canChat |-> JsGt0(newRemaining) \/ JsIsMinus1(newRemaining)]
  /\ UNCHANGED <<user, token, isAuthenticated, isLoading, authToken, userInfo,
                 mounted, loginPending, statusPending, limitsPending>>
  /\ UNCHANGED upVars
  /\ ev' = [op |-> "update", remaining |-> newRemaining, used |-> newUsed]
  /\ UNCHANGED libVars
  /\ out' = <<>>

\* the records a caller may hand to the exported setter
SetterValues ==
  [remaining : {Num(-1), Num(0), Num(1)}, used : {Num(0)}, canChat : BOOLEAN]

\* setChatLimits(v), the state setter the hook returns
SetChatLimits(v) ==
  /\ mounted
  /\ chatLimits' = v
  /\ UNCHANGED <<user, token, isAuthenticated, isLoading, authToken, userInfo,
                 mounted, loginPending, statusPending, limitsPending>>
  /\ UNCHANGED upVars
  /\ ev' = [op |-> "set", value |-> v]
  /\ UNCHANGED libVars
  /\ out' = <<>>

----------------------------------------------------------------------------
(* Library browser *)

\* the characters of names, descriptions and search terms
Chars == {"a", "A", "b"}

\* toLowerCase of a character
LowerChar(c) == IF c = "A" THEN "a" ELSE IF c = "B" THEN "b" ELSE c

\* s.toLowerCase(), s a sequence of characters
ToLowerCase(s) == [i \in 1..Len(s) |-> LowerChar(s[i])]

\* s.includes(t)
Includes(s, t) ==
  \E i \in 0..(Len(s) - Len(t)) : SubSeq(s, i + 1, i + Len(t)) = t

\* the catalog entries of the backend
D1 == [id |-> 1, name |-> <<"A", "b">>, description |-> <<"b", "a">>,
       category |-> "Social", gdrive_folder_id |-> "f1"]
D2 == [id |-> 2, name |-> <<"b", "B">>, description |-> <<>>,
       category |-> "Infra", gdrive_folder_id |-> ""]
D3 == [id |-> 3, name |-> <<"a">>, description |-> <<"B", "a">>,
       category |-> "Social", gdrive_folder_id |-> "f3"]

\* the lists of domains and of categories the catalog endpoint may return
Catalogs ==
  {SubSeq(c, 1, n) : c \in {<<D1, D2, D3>>, <<D3, D2, D1>>}, n \in 0..MaxCatalog}
CategoryLists == {<<"Social">>, <<"Infra", "Social">>}

DomainsResponses ==
  {[status |-> "ok", body |-> [domains |-> c, categories |-> l]] :
     c \in Catalogs, l \in CategoryLists}
    \cup {[status |-> s, body |-> NoBody] : s \in {"fail", "throw"}}

\* the search terms a user may type
Terms == UNION {[1..n -> Chars] : n \in 0..MaxTermLen}

Types == {"zip", "files"}

\* isPremium of a render
IsPremium(l) == JsIsMinus1(l.remaining)

\* filterDomains that compares with the term as typed (no toLowerCase of it)
FilterDomainsTermAsTyped(ds, term, cat) ==
  LET byCategory ==
        IF cat # "All"
          THEN LET sameCategory(d) == d.category = cat
               IN  SelectSeq(ds, sameCategory)
          ELSE ds
      matches(d) ==
        \/ Includes(ToLowerCase(d.name), term)
        \/ Includes(ToLowerCase(d.description), term)
  IN  IF term # <<>> THEN SelectSeq(byCategory, matches) ELSE byCategory

\* filterDomains that hands over the matches last to first
FilterDomainsReversed(ds, term, cat) ==
  LET byCategory ==
        IF cat # "All"
          THEN LET sameCategory(d) == d.category = cat
               IN  SelectSeq(ds, sameCategory)
          ELSE ds
      matches(d) ==
        \/ Includes(ToLowerCase(d.name), ToLowerCase(term))
        \/ Includes(ToLowerCase(d.description), ToLowerCase(term))
      kept == IF term # <<>> THEN SelectSeq(byCategory, matches) ELSE byCategory
  IN  [i \in 1..Len(kept) |-> kept[Len(kept) + 1 - i]]

\* filterDomains(): the list it hands to setFilteredDomains (SelectSeq is
\* Array.prototype.filter)
FilterDomains(ds, term, cat) ==
  LET byCategory ==
        IF cat # "All"
          THEN LET sameCategory(d) == d.category = cat
               IN  SelectSeq(ds, sameCategory)
          ELSE ds
      matches(d) ==
        \/ Includes(ToLowerCase(d.name), ToLowerCase(term))
        \/ Includes(ToLowerCase(d.description), ToLowerCase(term))
  IN  IF term # <<>> THEN SelectSeq(byCategory, matches) ELSE byCategory

\* isOpen becomes true: the effect calls fetchDomains, which runs up to the
\* await
LibraryOpen ==
  /\ ~isOpen
  /\ domainsPending < MaxInFlight
  /\ isOpen' = TRUE
  /\ loading' = TRUE
  /\ domainsPending' = domainsPending + 1
  /\ UNCHANGED <<domains, filteredDomains, searchTerm, selectedCategory,
                 categories, selectedDomain, downloadModalOpen, trackPending>>
  /\ UNCHANGED sessionVars
  /\ UNCHANGED upVars
  /\ ev' = [op |-> "open"]
  /\ out' = <<>>

\* onClose of the parent: isOpen becomes false
LibraryClose ==
  /\ isOpen
  /\ isOpen' = FALSE
  /\ UNCHANGED <<domains, filteredDomains, searchTerm, selectedCategory,
                 categories, loading, selectedDomain, downloadModalOpen,
                 domainsPending, trackPending>>
  /\ UNCHANGED sessionVars
  /\ UNCHANGED upVars
  /\ ev' = [op |-> "close"]
  /\ out' = <<>>

\* fetchDomains that empties the catalog when the request fails
FetchDomainsDoneClearsOnError(r) ==
  /\ domainsPending > 0
  /\ domainsPending' = domainsPending - 1
  /\ IF r.status = "ok"
       THEN /\ domains' = r.body.domains
            /\ categories' = <<"All">> \o r.body.categories
            /\ \E batched \in BOOLEAN :
                 /\ filteredDomains' =
                      IF batched
                        THEN FilterDomains(r.body.domains, searchTerm,
                                           selectedCategory)
                        ELSE r.body.domains
                 /\ ev' = [op |-> "domains", status |-> r.status,
                           body |-> r.body, batched |-> batched]
       ELSE /\ domains' = <<>>
            /\ filteredDomains' = <<>>
            /\ UNCHANGED categories
            /\ ev' = [op |-> "domains", status |-> r.status, body |-> r.body,
                      batched |-> TRUE]
  /\ loading' = FALSE
  /\ UNCHANGED <<isOpen, searchTerm, selectedCategory, selectedDomain,
                 downloadModalOpen, trackPending>>
  /\ UNCHANGED sessionVars
  /\ UNCHANGED upVars
  /\ out' = <<>>

\* fetchDomains from the response on, with the renders and the filter effect
\* its setters bring about. Where React applies the three setters in one
\* render (batched), the filter effect runs after it, over the new catalog.
\* Where each setter after an await renders on its own, the effect runs
\* after setDomains and setFilteredDomains(data.domains) is applied last,
\* with no change of [searchTerm, selectedCategory, domains] to run the
\* effect again. The build decides which of the two happens.
FetchDomainsDone(r) ==
  /\ domainsPending > 0
  /\ domainsPending' = domainsPending - 1
  /\ IF r.status = "ok"
       THEN /\ domains' = r.body.domains
            /\ categories' = <<"All">> \o r.body.categories
            /\ \E batched \in BOOLEAN :
                 /\ filteredDomains' =
                      IF batched
                        THEN FilterDomains(r.body.domains, searchTerm,
                                           selectedCategory)
                        ELSE r.body.domains
                 /\ ev' = [op |-> "domains", status |-> r.status,
                           body |-> r.body, batched |-> batched]
       ELSE /\ UNCHANGED <<domains, categories, filteredDomains>>
            /\ ev' = [op |-> "domains", status |-> r.status, body |-> r.body,
                      batched |-> TRUE]
  /\ loading' = FALSE
  /\ UNCHANGED <<isOpen, searchTerm, selectedCategory, selectedDomain,
                 downloadModalOpen, trackPending>>
  /\ UNCHANGED sessionVars
  /\ UNCHANGED upVars
  /\ out' = <<>>

\* the search box: setSearchTerm(t), then the filter effect
SetSearchTerm(t) ==
  /\ isOpen
  /\ t # searchTerm
  /\ searchTerm' = t
  /\ filteredDomains' = FilterDomains(domains, t, selectedCategory)
  /\ UNCHANGED <<isOpen, domains, selectedCategory, categories, loading,
                 selectedDomain, downloadModalOpen, domainsPending,
                 trackPending>>
  /\ UNCHANGED sessionVars
  /\ UNCHANGED upVars
  /\ ev' = [op |-> "search", term |-> t]
  /\ out' = <<>>

\* the category select, its options being the categories: setSelectedCategory(c),
\* then the filter effect
SetSelectedCategory(c) ==
  /\ isOpen
  /\ \E i \in 1..Len(categories) : categories[i] = c
  /\ c # selectedCategory
  /\ selectedCategory' = c
  /\ filteredDomains' = FilterDomains(domains, searchTerm, c)
  /\ UNCHANGED <<isOpen, domains, searchTerm, categories, loading,
                 selectedDomain, downloadModalOpen, domainsPending,
                 trackPending>>
  /\ UNCHANGED sessionVars
  /\ UNCHANGED upVars
  /\ ev' = [op |-> "category", category |-> c]
  /\ out' = <<>>

\* handleDomainClick without the premium check
HandleDomainClickNoGate(d) ==
  /\ isOpen
  /\ ~loading
  /\ \E i \in 1..Len(filteredDomains) : filteredDomains[i] = d
  /\ selectedDomain' = d
  /\ downloadModalOpen' = TRUE
  /\ out' = <<>>
  /\ UNCHANGED <<isOpen, domains, filteredDomains, searchTerm, selectedCategory,
                 categories, loading, domainsPending, trackPending>>
  /\ UNCHANGED sessionVars
  /\ UNCHANGED upVars
  /\ ev' = [op |-> "click", domain |-> d]

\* handleDomainClick(domain), from a card of the displayed list
HandleDomainClick(d) ==
  /\ isOpen
  /\ ~loading
  /\ \E i \in 1..Len(filteredDomains) : filteredDomains[i] = d
  /\ IF ~IsPremium(chatLimits)
       THEN /\ out' = <<[call |-> "onOpenUpgradeModal"]>>
            /\ UNCHANGED <<selectedDomain, downloadModalOpen>>
       ELSE /\ selectedDomain' = d
            /\ downloadModalOpen' = TRUE
            /\ out' = <<>>
  /\ UNCHANGED <<isOpen, domains, filteredDomains, searchTerm, selectedCategory,
                 categories, loading, domainsPending, trackPending>>
  /\ UNCHANGED sessionVars
  /\ UNCHANGED upVars
  /\ ev' = [op |-> "click", domain |-> d]

\* the calls of handleDownload
OpenCall(d, result) ==
  [call |-> "window.open", folder |-> d.gdrive_folder_id, result |-> result]
AlertCall(msg) == [call |-> "alert", msg |-> msg]
TrackCall(d, type) ==
  [call |-> "track", domain_id |-> d.id, download_type |-> type]

\* what window.open may do: return a window, return none (blocked), throw
OpenResults == {"window", "blocked", "throws"}

\* handleDownload without the second premium check
HandleDownloadNoRecheck(type, confirmed, opens) ==
  /\ isOpen
  /\ downloadModalOpen
  /\ trackPending < MaxInFlight
  /\ CASE selectedDomain = NoDomain ->
            /\ out' = <<>>
            /\ UNCHANGED <<downloadModalOpen, trackPending>>
       [] selectedDomain # NoDomain /\ ~Truthy(selectedDomain.gdrive_folder_id) ->
            /\ out' = <<AlertCall("folder not found")>>
            /\ UNCHANGED <<downloadModalOpen, trackPending>>
       [] OTHER ->
            IF ~confirmed
              THEN /\ out' = <<>>
                   /\ UNCHANGED <<downloadModalOpen, trackPending>>
              ELSE CASE opens = "throws" ->
                          /\ out' = <<OpenCall(selectedDomain, opens),
                                      AlertCall("failed to open")>>
                          /\ UNCHANGED <<downloadModalOpen, trackPending>>
                     [] opens = "blocked" ->
                          /\ out' = <<OpenCall(selectedDomain, opens),
                                      AlertCall("popup blocked")>>
                          /\ UNCHANGED <<downloadModalOpen, trackPending>>
                     [] OTHER ->
                          /\ downloadModalOpen' = FALSE
                          /\ out' = <<OpenCall(selectedDomain, opens),
                                      TrackCall(selectedDomain, type)>>
                          /\ trackPending' = trackPending + 1
  /\ UNCHANGED <<isOpen, domains, filteredDomains, searchTerm, selectedCategory,
                 categories, loading, selectedDomain, domainsPending>>
  /\ UNCHANGED sessionVars
  /\ UNCHANGED upVars
  /\ ev' = [op |-> "download", type |-> type, confirmed |-> confirmed,
            opens |-> opens]

\* handleDownload that tracks whatever window.open did
HandleDownloadTracksAttempts(type, confirmed, opens) ==
  /\ isOpen
  /\ downloadModalOpen
  /\ trackPending < MaxInFlight
  /\ CASE selectedDomain = NoDomain ->
            /\ out' = <<>>
            /\ UNCHANGED <<downloadModalOpen, trackPending>>
       [] selectedDomain # NoDomain /\ ~IsPremium(chatLimits) ->
            /\ downloadModalOpen' = FALSE
            /\ out' = <<[call |-> "onOpenUpgradeModal"]>>
            /\ UNCHANGED trackPending
       [] selectedDomain # NoDomain /\ IsPremium(chatLimits)
            /\ ~Truthy(selectedDomain.gdrive_folder_id) ->
            /\ out' = <<AlertCall("folder not found")>>
            /\ UNCHANGED <<downloadModalOpen, trackPending>>
       [] OTHER ->
            IF ~confirmed
              THEN /\ out' = <<>>
                   /\ UNCHANGED <<downloadModalOpen, trackPending>>
              ELSE /\ out' = <<OpenCall(selectedDomain, opens),
                               TrackCall(selectedDomain, type)>>
                   /\ trackPending' = trackPending + 1
                   /\ downloadModalOpen' = (opens # "window")
  /\ UNCHANGED <<isOpen, domains, filteredDomains, searchTerm, selectedCategory,
                 categories, loading, selectedDomain, domainsPending>>
  /\ UNCHANGED sessionVars
  /\ UNCHANGED upVars
  /\ ev' = [op |-> "download", type |-> type, confirmed |-> confirmed,
            opens |-> opens]

\* handleDownload(type), from the button of the confirmation dialog that
\* downloadModalOpen keeps up; confirmed is the answer of window.confirm,
\* opens what window.open does
HandleDownload(type, confirmed, opens) ==
  /\ isOpen
  /\ downloadModalOpen
  /\ trackPending < MaxInFlight
  /\ CASE selectedDomain = NoDomain ->
            /\ out' = <<>>
            /\ UNCHANGED <<downloadModalOpen, trackPending>>
       [] selectedDomain # NoDomain /\ ~IsPremium(chatLimits) ->
            /\ downloadModalOpen' = FALSE
            /\ out' = <<[call |-> "onOpenUpgradeModal"]>>
            /\ UNCHANGED trackPending
       [] selectedDomain # NoDomain /\ IsPremium(chatLimits)
            /\ ~Truthy(selectedDomain.gdrive_folder_id) ->
            /\ out' = <<AlertCall("folder not found")>>
            /\ UNCHANGED <<downloadModalOpen, trackPending>>
       [] OTHER ->
            IF ~confirmed
              THEN /\ out' = <<>>
                   /\ UNCHANGED <<downloadModalOpen, trackPending>>
              ELSE CASE opens = "throws" ->
                          /\ out' = <<OpenCall(selectedDomain, opens),
                                      AlertCall("failed to open")>>
                          /\ UNCHANGED <<downloadModalOpen, trackPending>>
                     [] opens = "blocked" ->
                          /\ out' = <<OpenCall(selectedDomain, opens),
                                      AlertCall("popup blocked")>>
                          /\ UNCHANGED <<downloadModalOpen, trackPending>>
                     [] OTHER ->
                          /\ downloadModalOpen' = FALSE
                          /\ out' = <<OpenCall(selectedDomain, opens),
                                      TrackCall(selectedDomain, type)>>
                          /\ trackPending' = trackPending + 1
  /\ UNCHANGED <<isOpen, domains, filteredDomains, searchTerm, selectedCategory,
                 categories, loading, selectedDomain, domainsPending>>
  /\ UNCHANGED sessionVars
  /\ UNCHANGED upVars
  /\ ev' = [op |-> "download", type |-> type, confirmed |-> confirmed,
            opens |-> opens]

\* onClose of the confirmation dialog
CloseDownloadModal ==
  /\ isOpen
  /\ downloadModalOpen
  /\ downloadModalOpen' = FALSE
  /\ UNCHANGED <<isOpen, domains, filteredDomains, searchTerm, selectedCategory,
                 categories, loading, selectedDomain, domainsPending,
                 trackPending>>
  /\ UNCHANGED sessionVars
  /\ UNCHANGED upVars
  /\ ev' = [op |-> "closeModal"]
  /\ out' = <<>>

\* trackDownload from the end of its request on: a rejection is logged
TrackDownloadDone(r) ==
  /\ trackPending > 0
  /\ trackPending' = trackPending - 1
  /\ UNCHANGED <<isOpen, domains, filteredDomains, searchTerm, selectedCategory,
                 categories, loading, selectedDomain, downloadModalOpen,
                 domainsPending>>
  /\ UNCHANGED sessionVars
  /\ UNCHANGED upVars
  /\ ev' = [op |-> "tracked", status |-> r]
  /\ out' = <<>>

\* the confirmation dialog is part of what the component renders
DownloadModalRendered ==
  /\ isOpen
  /\ downloadModalOpen
  /\ selectedDomain # NoDomain
  /\ IsPremium(chatLimits)

\* the inputs of filterDomains: any list of catalog entries, any typed term,
\* any category
FilterCatalogs == UNION {[1..n -> {D1, D2, D3}] : n \in 0..MaxFilterLen}
FilterTerms == UNION {[1..n -> Chars] : n \in 0..MaxFilterLen}
FilterCategories == {"All", "Social", "Infra", "Rural"}

\* a render of the library with some catalog, search term and category,
\* before the filter effect has run
FilterInit ==
  /\ authToken = Null
  /\ userInfo = Null
  /\ user = Null
  /\ token = Null
  /\ isAuthenticated = FALSE
  /\ isLoading = FALSE
  /\ chatLimits = DefaultLimits
  /\ mounted = FALSE
  /\ loginPending = 0
  /\ statusPending = 0
  /\ limitsPending = 0
  /\ isOpen = TRUE
  /\ domains \in FilterCatalogs
  /\ filteredDomains = <<>>
  /\ searchTerm \in FilterTerms
  /\ selectedCategory \in FilterCategories
  /\ categories = <<>>
  /\ loading = FALSE
  /\ selectedDomain = NoDomain
  /\ downloadModalOpen = FALSE
  /\ domainsPending = 0
  /\ trackPending = 0
  /\ UpgradeIdle
  /\ ev = [op |-> "init"]
  /\ out = <<>>

\* the filter effect: filterDomains() over the catalog
FilterEffect ==
  /\ ev.op = "init"
  /\ filteredDomains' = FilterDomains(domains, searchTerm, selectedCategory)
  /\ UNCHANGED <<isOpen, domains, searchTerm, selectedCategory, categories,
                 loading, selectedDomain, downloadModalOpen, domainsPending,
                 trackPending>>
  /\ UNCHANGED sessionVars
  /\ UNCHANGED upVars
  /\ ev' = [op |-> "filter"]
  /\ out' = <<>>

\* the filtered list becomes the catalog (setDomains) and the filter effect
\* runs over it with the same search term and category
FilterEffectAgain ==
  /\ ev.op = "filter"
  /\ domains' = filteredDomains
  /\ filteredDomains' =
       FilterDomains(filteredDomains, searchTerm, selectedCategory)
  /\ UNCHANGED <<isOpen, searchTerm, selectedCategory, categories, loading,
                 selectedDomain, downloadModalOpen, domainsPending,
                 trackPending>>
  /\ UNCHANGED sessionVars
  /\ UNCHANGED upVars
  /\ ev' = [op |-> "filterAgain"]
  /\ out' = <<>>

----------------------------------------------------------------------------
(* Upgrade flow *)

\* the single tier: 499 rupees, in paise
TierAmount == 49900

\* the prop user: null, a profile without google_id, a profile with one
UpUsers == {NoUser, [google_id |-> Undef], [google_id |-> "g1"]}

\* !user || !user.google_id
NoIdentity(u) == u = NoUser \/ ~Truthy(u.google_id)

\* the order ids the backend may hand out
OrderIds == {"order_1", "order_2"}

\* what may come back from create-order: the fetch rejects, a status that
\* is not ok, a body that is not JSON, an order descriptor
OrderResponses ==
  {[kind |-> "throws"], [kind |-> "notOk"], [kind |-> "badJson"]}
    \cup {[kind |-> "json",
           body |-> [order_id |-> o, amount |-> TierAmount, currency |-> "INR"]]
          : o \in OrderIds}

\* what may come back from verify-payment: the fetch rejects, a body that is
\* not JSON, a JSON body with some status field, each under an HTTP status
\* that is ok or not
VerifyResponses ==
  {[kind |-> "throws"]}
    \cup {[kind |-> "badJson", ok |-> k] : k \in BOOLEAN}
    \cup {[kind |-> "json", ok |-> k, status |-> st]
          : k \in BOOLEAN, st \in {"success", "failed", Undef}}

\* onUpgradeSuccess(): the promise it returns is fulfilled or rejected
RefreshOutcomes == {"resolved", "rejected"}

\* the calls the upgrade flow makes
OrderCall == [call |-> "create-order", amount |-> TierAmount, currency |-> "INR"]
RzpOpenCall(body) ==
  [call |-> "rzp.open", order_id |-> body.order_id, amount |-> body.amount,
   currency |-> body.currency]
VerifyCall(o, p, u) ==
  [call |-> "verify-payment", razorpay_order_id |-> o,
   razorpay_payment_id |-> p, user_id |-> u.google_id,
   amount |-> TierAmount, currency |-> "INR"]
RefreshCall == [call |-> "onUpgradeSuccess"]
CloseCall == [call |-> "onClose"]

\* the texts of the alerts
LoginFirstMsg == "Please login first to upgrade"
InitiateFailedMsg == "Failed to initiate payment: "
PaymentFailedMsg == "Payment Failed: "
PaymentSuccessMsg == "Payment Successful! You now have unlimited chats!"
SupportMsg(p) ==
  "Payment received but verification failed. Contact support with Payment ID: "
    \o p

\* the effect of the prompt: checkout.js is appended and, some time later,
\* has run (window.Razorpay is there)
ScriptLoaded ==
  /\ upOpen
  /\ ~scriptLoaded
  /\ scriptLoaded' = TRUE
  /\ UNCHANGED <<upOpen, upUser, upRefresh, orderPending, widgets, payments,
                 verifySent>>
  /\ UNCHANGED <<sessionVars, libVars>>
  /\ ev' = [op |-> "script"]
  /\ out' = <<>>

\* handleUpgrade() that asks for an order whether or not it has a user
HandleUpgradeNoUserCheck ==
  /\ upOpen
  /\ orderPending < MaxInFlight
  /\ orderPending' = orderPending + 1
  /\ out' = <<OrderCall>>
  /\ UNCHANGED <<upOpen, upUser, upRefresh, scriptLoaded, widgets, payments,
                 verifySent>>
  /\ UNCHANGED <<sessionVars, libVars>>
  /\ ev' = [op |-> "upgrade"]

\* handleUpgrade(), up to the await of the create-order request
HandleUpgrade ==
  /\ upOpen
  /\ IF NoIdentity(upUser)
       THEN /\ out' = <<AlertCall(LoginFirstMsg)>>
            /\ UNCHANGED orderPending
       ELSE /\ orderPending < MaxInFlight
            /\ orderPending' = orderPending + 1
            /\ out' = <<OrderCall>>
  /\ UNCHANGED <<upOpen, upUser, upRefresh, scriptLoaded, widgets, payments,
                 verifySent>>
  /\ UNCHANGED <<sessionVars, libVars>>
  /\ ev' = [op |-> "upgrade"]

\* handleUpgrade(), from the response of create-order on
CreateOrderDone(r) ==
  /\ orderPending > 0
  /\ orderPending' = orderPending - 1
  /\ IF r.kind = "json" /\ scriptLoaded
       THEN /\ widgets' = widgets \cup {r.body.order_id}
            /\ out' = <<RzpOpenCall(r.body)>>
       ELSE \* the fetch rejected, !orderResponse.ok, json() rejected, or
            \* window.Razorpay is not a constructor yet
            /\ out' = <<AlertCall(InitiateFailedMsg)>>
            /\ UNCHANGED widgets
  /\ UNCHANGED <<upOpen, upUser, upRefresh, scriptLoaded, payments, verifySent>>
  /\ UNCHANGED <<sessionVars, libVars>>
  /\ ev' = [op |-> "order", r |-> r]

\* the widget's 'payment.failed' event
PaymentFailed(o) ==
  /\ o \in widgets
  /\ out' = <<AlertCall(PaymentFailedMsg)>>
  /\ UNCHANGED upVars
  /\ UNCHANGED <<sessionVars, libVars>>
  /\ ev' = [op |-> "paymentFailed", order |-> o]

\* options.handler(response), up to the await of the verification request;
\* the provider reports a payment once
PaymentHandler(o, p) ==
  /\ o \in widgets
  /\ payments[p] = "new"
  /\ payments' = [payments EXCEPT ![p] = "verifying"]
  /\ verifySent' = [verifySent EXCEPT ![p] = @ + 1]
  /\ out' = <<VerifyCall(o, p, upUser)>>
  /\ UNCHANGED <<upOpen, upUser, upRefresh, scriptLoaded, orderPending, widgets>>
  /\ UNCHANGED <<sessionVars, libVars>>
  /\ ev' = [op |-> "payment", order |-> o, payment |-> p]

\* options.handler that sends the verification request again when the
\* verification did not succeed
VerifyDoneRetries(p, r) ==
  /\ payments[p] = "verifying"
  /\ IF r.kind = "json" /\ r.status = "success"
       THEN IF upRefresh
              THEN /\ out' = <<AlertCall(PaymentSuccessMsg), RefreshCall>>
                   /\ payments' = [payments EXCEPT ![p] = "refreshing"]
                   /\ UNCHANGED <<upOpen, verifySent>>
              ELSE /\ out' = <<AlertCall(PaymentSuccessMsg), CloseCall>>
                   /\ payments' = [payments EXCEPT ![p] = "settled"]
                   /\ upOpen' = FALSE
                   /\ UNCHANGED verifySent
       ELSE /\ out' = <<[call |-> "verify-payment", razorpay_payment_id |-> p]>>
            /\ verifySent' = [verifySent EXCEPT ![p] = @ + 1]
            /\ UNCHANGED <<upOpen, payments>>
  /\ UNCHANGED <<upUser, upRefresh, scriptLoaded, orderPending, widgets>>
  /\ UNCHANGED <<sessionVars, libVars>>
  /\ ev' = [op |-> "verified", payment |-> p, r |-> r]

\* options.handler, from the response of verify-payment up to the await of
\* onUpgradeSuccess() (up to its end when there is none, or when the
\* verification did not succeed)
VerifyDone(p, r) ==
  /\ payments[p] = "verifying"
  /\ IF r.kind = "json" /\ r.status = "success"
       THEN IF upRefresh
              THEN /\ out' = <<AlertCall(PaymentSuccessMsg), RefreshCall>>
                   /\ payments' = [payments EXCEPT ![p] = "refreshing"]
                   /\ UNCHANGED upOpen
              ELSE /\ out' = <<AlertCall(PaymentSuccessMsg), CloseCall>>
                   /\ payments' = [payments EXCEPT ![p] = "settled"]
                   /\ upOpen' = FALSE
       ELSE \* the fetch or json() rejected, or the status is not 'success'
            /\ out' = <<AlertCall(SupportMsg(p))>>
            /\ payments' = [payments EXCEPT ![p] = "settled"]
            /\ UNCHANGED upOpen
  /\ UNCHANGED <<upUser, upRefresh, scriptLoaded, orderPending, widgets,
                 verifySent>>
  /\ UNCHANGED <<sessionVars, libVars>>
  /\ ev' = [op |-> "verified", payment |-> p, r |-> r]

\* options.handler, from the settling of onUpgradeSuccess() on: onClose()
\* when it was fulfilled, the catch block when it was rejected
RefreshDone(p, outcome) ==
  /\ payments[p] = "refreshing"
  /\ payments' = [payments EXCEPT ![p] = "settled"]
  /\ IF outcome = "resolved"
       THEN /\ out' = <<CloseCall>>
            /\ upOpen' = FALSE
       ELSE /\ out' = <<AlertCall(SupportMsg(p))>>
            /\ UNCHANGED upOpen
  /\ UNCHANGED <<upUser, upRefresh, scriptLoaded, orderPending, widgets,
                 verifySent>>
  /\ UNCHANGED <<sessionVars, libVars>>
  /\ ev' = [op |-> "refreshed", payment |-> p, outcome |-> outcome]

\* the backdrop, the X button: onClose()
UpgradeDismiss ==
  /\ upOpen
  /\ upOpen' = FALSE
  /\ out' = <<CloseCall>>
  /\ UNCHANGED <<upUser, upRefresh, scriptLoaded, orderPending, widgets,
                 payments, verifySent>>
  /\ UNCHANGED <<sessionVars, libVars>>
  /\ ev' = [op |-> "dismiss"]

\* the prompt has just been rendered, with some props
UpgradeInit ==
  /\ authToken = Null
  /\ userInfo = Null
  /\ user = Null
  /\ token = Null
  /\ isAuthenticated = FALSE
  /\ isLoading = FALSE
  /\ chatLimits = DefaultLimits
  /\ mounted = FALSE
  /\ loginPending = 0
  /\ statusPending = 0
  /\ limitsPending = 0
  /\ isOpen = FALSE
  /\ domains = <<>>
  /\ filteredDomains = <<>>
  /\ searchTerm = <<>>
  /\ selectedCategory = "All"
  /\ categories = <<>>
  /\ loading = TRUE
  /\ selectedDomain = NoDomain
  /\ downloadModalOpen = FALSE
  /\ domainsPending = 0
  /\ trackPending = 0
  /\ upOpen = TRUE
  /\ upUser \in UpUsers
  /\ upRefresh \in BOOLEAN
  /\ scriptLoaded = FALSE
  /\ orderPending = 0
  /\ widgets = {}
  /\ payments = [p \in PaymentIds |-> "new"]
  /\ verifySent = [p \in PaymentIds |-> 0]
  /\ ev = [op |-> "init"]
  /\ out = <<>>

UpgradeNext ==
  \/ ScriptLoaded
  \/ HandleUpgrade
  \/ \E r \in OrderResponses : CreateOrderDone(r)
  \/ \E o \in OrderIds : PaymentFailed(o)
  \/ \E o \in OrderIds, p \in PaymentIds : PaymentHandler(o, p)
  \/ \E p \in PaymentIds, r \in VerifyResponses : VerifyDone(p, r)
  \/ \E p \in PaymentIds, outcome \in RefreshOutcomes : RefreshDone(p, outcome)
  \/ UpgradeDismiss

----------------------------------------------------------------------------
(* Specifications *)

\* the operations of the hook, without the bare setter
HookNext ==
  \/ Mount
  \/ LoginIssue
  \/ \E r \in LoginResponses : LoginDone(r)
  \/ Logout
  \/ FetchStatusIssue
  \/ \E r \in StatusResponses : FetchStatusDone(r)
  \/ CheckLimitsIssue
  \/ \E r \in LimitsResponses : CheckLimitsDone(r)
  \/ \E nr \in Remainings, nu \in Counts : UpdateChatLimits(nr, nu)

\* the session state manager: the hook and the setter it hands out
SessionNext ==
  \/ HookNext
  \/ \E v \in SetterValues : SetChatLimits(v)

\* the catalog of the library browser
CatalogNext ==
  \/ LibraryOpen
  \/ LibraryClose
  \/ \E r \in DomainsResponses : FetchDomainsDone(r)
  \/ \E t \in Terms : SetSearchTerm(t)
  \/ \E c \in {"All", "Social", "Infra"} : SetSelectedCategory(c)

\* the download gate of the library browser
GateNext ==
  \/ \E d \in {D1, D2, D3} : HandleDomainClick(d)
  \/ \E type \in Types, confirmed \in BOOLEAN, opens \in OpenResults :
       HandleDownload(type, confirmed, opens)
  \/ CloseDownloadModal
  \/ \E r \in {"ok", "fail", "throw"} : TrackDownloadDone(r)

Next == SessionNext \/ CatalogNext \/ GateNext \/ UpgradeNext

Spec == Init /\ [][Next]_vars

\* a browser with nothing stored
FreshInit == Init /\ authToken = Null /\ userInfo = Null

\* the session state manager alone
SessionSpec == Init /\ [][SessionNext]_vars

\* the hook without callers of the bare setter
HookSpec == Init /\ [][HookNext]_vars

\* the catalog alone
CatalogSpec == FreshInit /\ [][CatalogNext]_vars

\* the download gate, the catalog being fetched and the entitlement being
\* changed by updateChatLimits
GateSpec ==
  FreshInit
    /\ [][\/ GateNext
           \/ Mount
           \/ \E nr \in Remainings : UpdateChatLimits(nr, Num(0))
           \/ LibraryOpen
           \/ LibraryClose
           \/ \E r \in DomainsResponses : FetchDomainsDone(r)]_vars

\* the upgrade prompt on its own
UpgradeSpec == UpgradeInit /\ [][UpgradeNext]_vars

\* filterDomains as a function of catalog, search term and category
FilterSpec == FilterInit /\ [][FilterEffect \/ FilterEffectAgain]_vars

----------------------------------------------------------------------------
(* Session state manager: properties *)

\* canChat as the data model derives it from remaining
DerivedCanChat(l) ==
  (l.remaining.k = "num" /\ l.remaining.v > 0) \/ l.remaining = Num(-1)

\* the logged-out session
LoggedOutState ==
  /\ token = Null
  /\ user = Null
  /\ isAuthenticated = FALSE
  /\ chatLimits =
       [remaining |-> Num(FREE_CHAT_LIMIT), used |-> Num(0), canChat |-> TRUE]
  /\ authToken = Null
  /\ userInfo = Null

\* C1: in every reachable state, writes through the exported setter
\* included, chatLimits.canChat = (remaining > 0 or remaining = -1).
C1_CanChatDerived == chatLimits.canChat = DerivedCanChat(chatLimits)

\* C1, the part the code keeps (under HookSpec): the hook's own operations
\* preserve the derivation.
C1_HookKeepsCanChatDerived ==
  ev.op # "set" => chatLimits.canChat = DerivedCanChat(chatLimits)

\* the values a status body stands for
ExpectedStatusRemaining(b) ==
  IF b.remaining_chats # NoNum THEN b.remaining_chats
  ELSE IF b.remaining # NoNum THEN b.remaining ELSE Num(-1)

ExpectedStatusUsed(b) ==
  IF b.chat_count # NoNum THEN b.chat_count
  ELSE IF b.used # NoNum THEN b.used ELSE Num(0)

ExpectedStatusLimits(b) ==
  [remaining |-> ExpectedStatusRemaining(b),
   used |-> ExpectedStatusUsed(b),
   canChat |-> ExpectedStatusRemaining(b).v > 0
                 \/ ExpectedStatusRemaining(b).v = -1]

\* C2 as stated: a fetchStatus that completes with 401 forces the
\* logged-out state; one that completes with any other response replaces
\* chatLimits and the profile by the values of that response.
C2_AnyOtherResponseReplaces ==
  (ev.op = "status" /\ ev.status # "throw") =>
    IF ev.status = "401"
      THEN LoggedOutState
      ELSE /\ chatLimits = ExpectedStatusLimits(ev.body)
           /\ ev.body.user \in Profiles => user = ev.body.user

\* C2 amended: 401 forces the logged-out state; a success response replaces
\* chatLimits by the values of the response, and the profile (in memory and
\* persisted) when the response carries one; any other status, and a failed
\* request, leave the session as it was.
C2_FetchStatusOutcome ==
  [][ev'.op = "status" =>
       CASE ev'.status = "401" -> LoggedOutState'
         [] ev'.status = "ok" ->
              /\ chatLimits' = ExpectedStatusLimits(ev'.body)
              /\ IF ev'.body.user \in Profiles
                   THEN /\ user' = ev'.body.user
                        /\ userInfo' = Stringify(ev'.body.user)
                   ELSE UNCHANGED <<user, userInfo>>
         [] OTHER ->
              UNCHANGED <<user, token, isAuthenticated, chatLimits, authToken,
                          userInfo>>]_vars

\* C2 witness: a success response with a profile and without remaining_chats
\* has replaced the profile and the limits of an authenticated session.
C2_Witness ==
  /\ ev.op = "status"
  /\ ev.status = "ok"
  /\ ev.body.user = "bob"
  /\ ev.body.remaining_chats = NoNum
  /\ ev.body.remaining = Num(1)
  /\ isAuthenticated
  /\ user = "bob"
  /\ chatLimits.remaining = Num(1)

\* the login exchange failed: a non-success status, a rejected request, or a
\* body the handler cannot process (no profile in it)
LoginFailed(e) ==
  e.op = "login" /\ (e.status \in {"fail", "throw"} \/ e.body.user = Undef)

\* C3: when a failed login finishes, the session is logged out and
\* isLoading is false.
C3_LoginFailureLogsOut ==
  LoginFailed(ev) => (LoggedOutState /\ isLoading = FALSE)

\* C3 witness: a success status with a token and no profile ended logged out.
C3_Witness ==
  /\ LoginFailed(ev)
  /\ ev.status = "ok"
  /\ ev.body.access_token = "t1"
  /\ LoggedOutState

\* the login exchange succeeded: a success status, a session token and the
\* profile
LoginSucceeded(e) ==
  /\ e.op = "login"
  /\ e.status = "ok"
  /\ e.body.access_token \in Tokens
  /\ e.body.user \in Profiles

\* the chat count of a login body
ExpectedLoginUsed(b) ==
  IF b.user_chat_count \notin {NoNum, Num(0)} THEN b.user_chat_count
  ELSE IF b.chat_count \notin {NoNum, Num(0)} THEN b.chat_count ELSE Num(0)

\* C4: when a successful login finishes, token, user and chatLimits are the
\* returned ones, isAuthenticated is true, and the persisted entries hold
\* that token and the serialization of that profile.
C4_LoginSuccessStoresSession ==
  LoginSucceeded(ev) =>
    /\ token = ev.body.access_token
    /\ isAuthenticated = TRUE
    /\ user = ev.body.user
    /\ chatLimits.remaining = ev.body.remaining_chats
    /\ chatLimits.used = ExpectedLoginUsed(ev.body)
    /\ authToken = ev.body.access_token
    /\ userInfo = Stringify(ev.body.user)
    /\ Parses(userInfo) /\ Parse(userInfo) = ev.body.user

\* C4 witness: a premium login as bob with token t2.
C4_Witness ==
  /\ LoginSucceeded(ev)
  /\ token = "t2"
  /\ user = "bob"
  /\ chatLimits.remaining = Num(-1)
  /\ chatLimits.used = Num(1)

\* C5: logout leaves the logged-out state, both persisted entries removed.
C5_LogoutClearsSession == ev.op = "logout" => LoggedOutState

\* C5 witness: logout of an authenticated session.
C5_Witness == ev.op = "logout" /\ ev.wasAuthenticated /\ LoggedOutState

\* C6 as stated: checkLimits derives used (free allowance minus remaining)
\* only when the response omits the used count; otherwise used is the
\* backend's value.
C6_UsedFromBackend ==
  (ev.op = "limits" /\ ev.status = "ok") =>
    chatLimits.used =
      IF ev.body.used # NoNum
        THEN ev.body.used
        ELSE IF ev.body.remaining_chats.k = "num"
               THEN Num(FREE_CHAT_LIMIT - ev.body.remaining_chats.v)
               ELSE NaN

----------------------------------------------------------------------------
(* Library browser: properties *)

\* the calls of one kind among those a handler made
CallsOf(calls, kind) ==
  LET isKind(c) == c.call = kind IN SelectSeq(calls, isKind)

\* C7: a domain click of a user whose remaining is not -1 requests the
\* upgrade flow and leaves the selected domain and the confirmation alone;
\* with remaining = -1 it selects the clicked domain and opens the
\* confirmation without requesting the upgrade flow; the confirmation is
\* never rendered while remaining is not -1.
C7_DomainClickGate ==
  [][/\ ev'.op = "click" =>
          IF chatLimits.remaining # Num(-1)
            THEN /\ CallsOf(out', "onOpenUpgradeModal") # <<>>
                 /\ UNCHANGED <<selectedDomain, downloadModalOpen>>
            ELSE /\ selectedDomain' = ev'.domain
                 /\ downloadModalOpen' = TRUE
                 /\ CallsOf(out', "onOpenUpgradeModal") = <<>>
     /\ DownloadModalRendered' => chatLimits'.remaining = Num(-1)]_vars

\* C7 witness: a click by a user with no chats left, on a card next to the
\* domain selected earlier, asked for the upgrade flow; the confirmation
\* that was open is not rendered.
C7_Witness ==
  /\ ev.op = "click"
  /\ ev.domain = D2
  /\ chatLimits.remaining = Num(0)
  /\ out = <<[call |-> "onOpenUpgradeModal"]>>
  /\ selectedDomain = D1
  /\ downloadModalOpen
  /\ ~DownloadModalRendered

\* C8: download opens the storage link only while remaining = -1; with a
\* domain selected and remaining not -1 it opens nothing, closes the
\* confirmation and requests the upgrade flow.
C8_DownloadRechecksPremium ==
  ev.op = "download" =>
    /\ CallsOf(out, "window.open") # <<>> => chatLimits.remaining = Num(-1)
    /\ (selectedDomain # NoDomain /\ chatLimits.remaining # Num(-1)) =>
         /\ out = <<[call |-> "onOpenUpgradeModal"]>>
         /\ downloadModalOpen = FALSE

\* C8 witness: the entitlement was gone when the download of the selected
\* domain was confirmed.
C8_Witness ==
  /\ ev.op = "download"
  /\ ev.confirmed /\ ev.opens = "window"
  /\ selectedDomain = D1
  /\ chatLimits.remaining = Num(0)
  /\ out = <<[call |-> "onOpenUpgradeModal"]>>
  /\ downloadModalOpen = FALSE

\* a download by a premium user on a selected domain
PremiumDownload(e) ==
  /\ e.op = "download"
  /\ chatLimits.remaining = Num(-1)
  /\ selectedDomain # NoDomain

\* C9 as stated: every download of a premium user on a selected domain
\* fires exactly one tracking call with the domain's id and the type,
\* whether the link was opened, its target was missing or the new browsing
\* context was blocked.
C9_TracksWhateverTheOutcome ==
  (PremiumDownload(ev) /\ (selectedDomain.gdrive_folder_id = "" \/ ev.confirmed)) =>
    CallsOf(out, "track") =
      <<[call |-> "track", domain_id |-> selectedDomain.id,
         download_type |-> ev.type]>>

\* C9 amended: a download of a premium user on a selected domain fires
\* exactly one tracking call, with the domain's id and the type, when the
\* link was opened (target present, the user confirmed, window.open returned
\* a window) and none otherwise; the end of the tracking request, a failure
\* included, changes no state and calls nothing.
C9_TracksOpenedDownloads ==
  [][/\ (ev'.op = "download" /\ chatLimits.remaining = Num(-1)
          /\ selectedDomain # NoDomain) =>
          CallsOf(out', "track") =
            IF /\ selectedDomain.gdrive_folder_id # ""
               /\ ev'.confirmed
               /\ ev'.opens = "window"
              THEN <<[call |-> "track", domain_id |-> selectedDomain.id,
                      download_type |-> ev'.type]>>
              ELSE <<>>
     /\ ev'.op = "tracked" =>
          /\ out' = <<>>
          /\ UNCHANGED <<isOpen, domains, filteredDomains, searchTerm,
                         selectedCategory, categories, loading, selectedDomain,
                         downloadModalOpen, chatLimits>>]_vars

\* C9 witness: the link of D1 was opened and the download tracked as zip.
C9_Witness ==
  /\ ev.op = "download"
  /\ out = <<[call |-> "window.open", folder |-> "f1", result |-> "window"],
             [call |-> "track", domain_id |-> 1, download_type |-> "zip"]>>
  /\ trackPending = 1

\* C10: a failed fetchDomains leaves the catalog, the category list and the
\* filtered list as they were; a successful one replaces the catalog by the
\* returned domains and the category list by "All" and the returned
\* categories.
C10_FetchDomainsStaleOnError ==
  [][/\ (ev'.op = "domains" /\ ev'.status # "ok") =>
          UNCHANGED <<domains, categories, filteredDomains>>
     /\ (ev'.op = "domains" /\ ev'.status = "ok") =>
          /\ domains' = ev'.body.domains
          /\ categories' = <<"All">> \o ev'.body.categories
     /\ ev'.op = "open" =>
          UNCHANGED <<domains, categories, filteredDomains>>]_vars

\* C10 witness: a fetch failed over a loaded catalog that a search term
\* narrows.
C10_Witness ==
  /\ ev.op = "domains"
  /\ ev.status = "throw"
  /\ domains = <<D1, D2>>
  /\ categories = <<"All", "Infra", "Social">>
  /\ searchTerm = <<"A">>
  /\ filteredDomains = <<D1>>

----------------------------------------------------------------------------
(* filter: properties *)

\* lower case, letter by letter
LowerOf(c) == CASE c = "A" -> "a" [] c = "B" -> "b" [] OTHER -> c

\* t, lower-cased, occurs in s, lower-cased
OccursIgnoringCase(t, s) ==
  \E i \in 1..(Len(s) - Len(t) + 1) :
    \A j \in 1..Len(t) : LowerOf(s[i + j - 1]) = LowerOf(t[j])

\* the entry passes the category and the search term
Passes(d, term, cat) ==
  /\ cat = "All" \/ d.category = cat
  /\ \/ term = <<>>
     \/ OccursIgnoringCase(term, d.name)
     \/ OccursIgnoringCase(term, d.description)

\* r is c restricted to the positions in keep, in the order of c
IsRestriction(r, c, keep) ==
  /\ Len(r) = Cardinality(keep)
  /\ \A i \in keep : r[Cardinality({m \in keep : m < i}) + 1] = c[i]

\* C11: filter returns the catalog entries, in catalog order, whose category
\* is the selected one (or any, for "All") and whose name or description
\* contains the search term, case ignored (all of them for an empty term).
C11_FilterReturnsMatches ==
  ev.op = "filter" =>
    IsRestriction(filteredDomains, domains,
      {i \in 1..Len(domains) : Passes(domains[i], searchTerm, selectedCategory)})

\* C11 witness: the upper-case term A under "All" kept D3 (name a) and
\* dropped D2.
C11_Witness ==
  /\ ev.op = "filter"
  /\ domains = <<D2, D3>>
  /\ searchTerm = <<"A">>
  /\ selectedCategory = "All"
  /\ filteredDomains = <<D3>>

\* C12: filtering the result of filter with the same search term and
\* category returns that result.
C12_FilterIdempotent == ev.op = "filterAgain" => filteredDomains = domains

\* C12 witness: a result of two entries was filtered again.
C12_Witness ==
  /\ ev.op = "filterAgain"
  /\ searchTerm = <<"b">>
  /\ selectedCategory = "All"
  /\ filteredDomains = <<D2, D1>>

----------------------------------------------------------------------------
(* Upgrade flow: properties *)

\* the order descriptors among the responses of create-order
OrderReturned(r) == r.kind = "json"

\* C13: initiateUpgrade sends no order request and opens no widget unless a
\* user with an identity id is present; a widget is opened only by the
\* continuation of an order request whose response carried an order
\* descriptor, with the order id of that descriptor; when the order creation
\* failed no widget is opened and the payment-initiation alert is shown.
C13_UpgradeNeedsUserAndOrder ==
  /\ NoIdentity(upUser) =>
       /\ orderPending = 0
       /\ widgets = {}
       /\ CallsOf(out, "create-order") = <<>>
       /\ CallsOf(out, "rzp.open") = <<>>
  /\ CallsOf(out, "rzp.open") # <<>> =>
       /\ ev.op = "order"
       /\ OrderReturned(ev.r)
       /\ out = <<[call |-> "rzp.open", order_id |-> ev.r.body.order_id,
                   amount |-> ev.r.body.amount,
                   currency |-> ev.r.body.currency]>>
  /\ ev.op = "order" /\ ~OrderReturned(ev.r) =>
       out = <<AlertCall(InitiateFailedMsg)>>

\* C13 witness: the order request came back with order_2 and the widget was
\* opened with it.
C13_Witness ==
  /\ ev.op = "order"
  /\ OrderReturned(ev.r)
  /\ ev.r.body.order_id = "order_2"
  /\ CallsOf(out, "rzp.open") # <<>>
  /\ "order_2" \in widgets

\* C13 witness of the refusals: a failed order creation, alert shown.
C13_WitnessFailure ==
  /\ ev.op = "order"
  /\ ev.r.kind = "notOk"
  /\ out = <<AlertCall(InitiateFailedMsg)>>

\* the verification of the payment was reported as successful
VerifiedOk(r) == r.kind = "json" /\ r.status = "success"

\* the step is the success handler receiving a verification response that
\* is not a success
VerificationFailedStep == ev'.op = "verified" /\ ~VerifiedOk(ev'.r)

\* C14: when the verification of a payment comes back without status
\* success, or the request fails, the handler shows the support-contact alert
\* with the payment id and does nothing else: no entitlement refresh, no
\* close of the flow, no verification request; and from then on no
\* verification request is sent for that payment.
C14_VerificationFailureAlertsOnly ==
  /\ [][VerificationFailedStep =>
          /\ out' = <<AlertCall(SupportMsg(ev'.payment))>>
          /\ upOpen' = upOpen
          /\ verifySent' = verifySent
          /\ payments'[ev'.payment] = "settled"]_vars
  /\ [][\A p \in PaymentIds :
          payments[p] = "settled" => verifySent'[p] = verifySent[p]]_vars

\* C14 witness: verify-payment answered pay_1 with an error status and a body
\* whose status is "failed"; the alert names pay_1, the prompt is still there
\* and one verification request was sent.
C14_Witness ==
  /\ ev.op = "verified"
  /\ ev.payment = "pay_1"
  /\ ev.r = [kind |-> "json", ok |-> FALSE, status |-> "failed"]
  /\ out = <<AlertCall(SupportMsg("pay_1"))>>
  /\ upOpen
  /\ verifySent["pay_1"] = 1

\* C15: when the verification reports success the handler invokes the
\* caller's entitlement refresh and, once the refresh has finished, whatever
\* its outcome, closes the flow; the support-contact alert is not shown.
C15_VerifiedSuccessRefreshesThenCloses ==
  /\ ev.op = "verified" /\ VerifiedOk(ev.r) =>
       /\ CallsOf(out, "alert") = <<AlertCall(PaymentSuccessMsg)>>
       /\ upRefresh => /\ CallsOf(out, "onUpgradeSuccess") = <<RefreshCall>>
                       /\ CallsOf(out, "onClose") = <<>>
       /\ ~upRefresh => CallsOf(out, "onClose") = <<CloseCall>>
  /\ ev.op = "refreshed" => out = <<CloseCall>> /\ ~upOpen

\* C15, for a refresh that is fulfilled: the flow is closed after it and no
\* alert is shown.
C15_ClosesAfterFulfilledRefresh ==
  /\ ev.op = "verified" /\ VerifiedOk(ev.r) =>
       /\ CallsOf(out, "alert") = <<AlertCall(PaymentSuccessMsg)>>
       /\ upRefresh => /\ CallsOf(out, "onUpgradeSuccess") = <<RefreshCall>>
                       /\ CallsOf(out, "onClose") = <<>>
       /\ ~upRefresh => CallsOf(out, "onClose") = <<CloseCall>>
  /\ ev.op = "refreshed" /\ ev.outcome = "resolved" =>
       out = <<CloseCall>> /\ ~upOpen

\* the refresh of a verified payment was rejected: the support-contact alert
\* is shown and the prompt stays
C15_RejectedRefresh ==
  /\ ev.op = "refreshed"
  /\ ev.outcome = "rejected"
  /\ out = <<AlertCall(SupportMsg(ev.payment))>>
  /\ upOpen

----------------------------------------------------------------------------
(* Session state manager: requests in flight *)

\* C16: a status response that arrives after updateLimits was applied
\* replaces chatLimits with the snapshot of the response, whatever
\* updateLimits had set: there is an execution fetchStatus issued,
\* updateLimits applied, response arrived, whose final chatLimits are not
\* those of updateLimits.
C16_StaleStatusReplacesUpdate ==
  [][(ev.op = "update" /\ ev'.op = "status" /\ ev'.status = "ok") =>
       chatLimits' = ExpectedStatusLimits(ev'.body)]_vars

\* C16 witness: the response arrived right after updateLimits and the
\* chatLimits are the snapshot of the response, not what updateLimits set.
C16_Witness ==
  /\ ev.op = "status"
  /\ ev.status = "ok"
  /\ ev.overwroteUpdate
  /\ chatLimits = ExpectedStatusLimits(ev.body)

----------------------------------------------------------------------------
(* Session state manager: localStorage *)

\* the entry 'auth_token' is there exactly when the hook holds a token, and
\* is that token
TokenMirrored ==
  IF Truthy(token) THEN authToken = token ELSE authToken = Null

\* the entry 'user_info' is there exactly when the hook holds a user, and is
\* its serialization
ProfileMirrored ==
  IF Truthy(user) THEN userInfo = Stringify(user) ELSE userInfo = Null

\* C17: after every completed step of load, login, fetchStatus and logout
\* the persisted token is present exactly when the in-memory token is, with
\* the same value, and the persisted profile is present exactly when the
\* in-memory user is, as its serialization.
C17_StorageMirrorsSession ==
  ev.op \in {"mount", "login", "status", "logout"} =>
    TokenMirrored /\ ProfileMirrored

\* the page was loaded with a stored profile and no stored token: the profile
\* stays in storage and the hook holds no user
C17_OrphanProfileAfterLoad ==
  /\ ev.op = "mount"
  /\ authToken = Null
  /\ userInfo # Null
  /\ user = Null

\* a response of fetchUserStatus that arrived after logout stored a profile
\* next to no token
C17_ProfileStoredAfterLogout ==
  /\ ev.op = "status"
  /\ authToken = Null
  /\ token = Null
  /\ userInfo \in {Stringify(u) : u \in Profiles}

\* both entries are in storage
BothStored == Truthy(authToken) /\ Truthy(userInfo)

\* the stored profile is the serialization of some profile
StoredProfileParses == \E u \in Profiles : userInfo = Stringify(u)

\* C18: the load restores the session as authenticated (token and user from
\* storage, isAuthenticated true, a status fetch sent) exactly when both
\* entries are stored and the profile parses; with a profile that does not
\* parse it ends logged out with both entries removed; with an entry missing
\* isAuthenticated stays false, user stays absent and no status fetch is sent.
C18_LoadRestoresSession ==
  [][ev'.op = "mount" =>
       CASE BothStored /\ StoredProfileParses ->
              /\ token' = authToken
              /\ Stringify(user') = userInfo
              /\ isAuthenticated'
              /\ statusPending' = statusPending + 1
              /\ authToken' = authToken
              /\ userInfo' = userInfo
         [] BothStored /\ ~StoredProfileParses ->
              /\ LoggedOutState'
              /\ statusPending' = statusPending
         [] OTHER ->
              /\ ~isAuthenticated'
              /\ user' = Null
              /\ statusPending' = statusPending]_vars

\* C18 witness: the load found t1 and the profile of alice and restored them,
\* with the status fetch under way.
C18_Witness ==
  /\ ev.op = "mount"
  /\ token = "t1"
  /\ user = "alice"
  /\ isAuthenticated
  /\ statusPending = 1
  /\ authToken = "t1"
  /\ userInfo = Stringify("alice")

\* the step is the arrival of the response of a request of the hook
ResponseArrives == ev'.op \in {"status", "limits", "login"}

\* C19: after logout, and with no login started since, the arrival of a
\* response of fetchStatus, checkLimits or login that was requested before
\* the logout leaves the session logged out: user absent, isAuthenticated
\* false, chatLimits at the default, both persisted entries absent.
C19_LogoutIsFinal ==
  [][(ev.op = "logout" /\ ResponseArrives) => LoggedOutState']_vars

\* C19, for the responses that change nothing or log out again: a response
\* that is not ok leaves the session logged out.
C19_FailedResponsesKeepLogout ==
  [][(ev.op = "logout" /\ ResponseArrives /\ ev'.status # "ok") =>
       LoggedOutState']_vars

----------------------------------------------------------------------------
(* Session state manager: the premium sentinel *)

\* the body of an ok response carries no remaining count
OmitsRemaining(e) ==
  /\ e.op \in {"login", "status", "limits"}
  /\ e.status = "ok"
  /\ e.body.remaining_chats = NoNum
  /\ e.op = "status" => e.body.remaining = NoNum

\* the body of an ok response reports -1 as the remaining count
ReportsPremium(e) ==
  /\ e.op \in {"login", "status", "limits"}
  /\ e.status = "ok"
  /\ \/ e.body.remaining_chats = Num(-1)
     \/ e.op = "status" /\ e.body.remaining_chats = NoNum
                        /\ e.body.remaining = Num(-1)

\* C20: chatLimits.remaining is -1 after a response only when the response
\* reports -1; a response that omits the remaining count never results in
\* remaining = -1.
C20_OmittedRemainingIsNotPremium ==
  OmitsRemaining(ev) => chatLimits.remaining # Num(-1)

\* C20, with the default of fetchUserStatus named: the operations of the
\* hook turn remaining into -1 only on a response that reports -1, on
\* updateLimits called with -1, or on a status response that omits the
\* remaining count.
C20_SentinelSources ==
  [][(chatLimits'.remaining = Num(-1) /\ chatLimits.remaining # Num(-1)) =>
       \/ ReportsPremium(ev')
       \/ ev'.op = "update" /\ ev'.remaining = Num(-1)
       \/ ev'.op = "status" /\ OmitsRemaining(ev')]_vars

\* a status response without a remaining count made the user premium
C20_PremiumByOmission ==
  /\ ev.op = "status"
  /\ OmitsRemaining(ev)
  /\ IsPremium(chatLimits)

----------------------------------------------------------------------------
(* Session state manager: isAuthenticated *)

\* C21: in every reachable state of the session manager isAuthenticated is
\* true exactly when the hook holds both a token and a user profile.
C21_AuthenticatedIffTokenAndUser ==
  isAuthenticated <=> (Truthy(token) /\ Truthy(user))

\* C21, one direction: an authenticated session holds a user profile.
C21_AuthenticatedHoldsUser == isAuthenticated => Truthy(user)

\* a status response gave a user to a hook that held the stored token of a
\* load without stored profile: token and user present, isAuthenticated false
C21_TokenAndUserNotAuthenticated ==
  /\ ev.op = "status"
  /\ Truthy(token)
  /\ Truthy(user)
  /\ ~isAuthenticated

\* a login response without access_token was applied: isAuthenticated true,
\* no token
C21_AuthenticatedWithoutToken ==
  /\ ev.op = "login"
  /\ isAuthenticated
  /\ ~Truthy(token)

----------------------------------------------------------------------------
(* Library browser: the displayed list *)

\* the displayed list is the filter of the catalog under the search term and
\* the category of the state
ShowsFilterOfCatalog ==
  IsRestriction(filteredDomains, domains,
    {i \in 1..Len(domains) : Passes(domains[i], searchTerm, selectedCategory)})

C22_FilterEffectRestoresList ==
  [][(\/ ev'.op \in {"search", "category"}
      \/ ev'.op = "domains" /\ ev'.status = "ok" /\ ev'.batched)
       => ShowsFilterOfCatalog']_vars

\* a fetch that completed under a search term left the whole catalog on
\* display
C22_WholeCatalogUnderSearchTerm ==
  /\ ev.op = "domains"
  /\ ev.status = "ok"
  /\ ~ev.batched
  /\ searchTerm = <<"A">>
  /\ domains = <<D1, D2>>
  /\ filteredDomains = <<D1, D2>>

====
